---- MODULE Spec2Model ----
(***************************************************************************)
(* Huffman compressor (src/src/Compressor.py, src/src/Node.py).            *)
(*                                                                         *)
(* Characters are code points, bit strings are sequences over {0, 1}, an   *)
(* ordered dict is the sequence of its <<key, value>> items in iteration   *)
(* order, and Node objects live in a heap indexed by object identity       *)
(* (None is 0).                                                            *)
(***************************************************************************)
EXTENDS Integers, Sequences, FiniteSets, TLC

\* ------------------------------------------------------------------ bounds
NumSyms == 3
MaxLen == 5
MaxBits == 9
MaxCodeLen == 3

\* ------------------------------------------------------------------ values
None == 0

\* The characters a file may hold: newline, then 'a', 'b', ...
CodePoint(i) == IF i = 1 THEN 10 ELSE 95 + i

Alphabet == {CodePoint(i) : i \in 1..NumSyms}

SeqsUpTo(S, n) == UNION {[1..k -> S] : k \in 0..n}

Bit == {0, 1}

\* Node.__init__
Node(char, frequency, left, right, parent) ==
    [char |-> char, frequency |-> frequency, left |-> left, right |-> right,
     parent |-> parent, code |-> <<>>]

VARIABLES
    pc,                  \* position in Compressor.compress
    content,             \* the characters of the file at self.path
    alphabet_frequency,  \* self.alphabet_frequency
    encoding_table,      \* self.encoding_table
    heap,                \* the Node objects created so far
    nodes,               \* the working list of __create_tree
    tree,                \* the root returned by __create_tree
    freq_file,           \* the frequency file: "absent" or its lines
    binary_code,         \* the bit string handed to __get_byte_array
    bin_file,            \* the compressed file: "absent" or its bytes
    outcome              \* how the run ended

vars == <<pc, content, alphabet_frequency, encoding_table, heap, nodes, tree,
          freq_file, binary_code, bin_file, outcome>>

\* ------------------------------------------------------- ordered dicts
EmptyDict == [c \in {} |-> <<>>]

Keys(items) == {items[i][1] : i \in 1..Len(items)}

\* alphabet_frequency[char] = alphabet_frequency.get(char, 0) + 1
Increment(items, char) ==
    IF char \in Keys(items)
    THEN [i \in 1..Len(items) |->
             IF items[i][1] = char THEN <<char, items[i][2] + 1>> ELSE items[i]]
    ELSE Append(items, <<char, 1>>)

RECURSIVE CountChars(_, _)
CountChars(text, items) ==
    IF text = <<>> THEN items
    ELSE CountChars(Tail(text), Increment(items, Head(text)))

\* sorted(items, key=lambda item: item[k]): stable, ascending
RECURSIVE InsertItem(_, _, _)
InsertItem(sorted, item, k) ==
    IF sorted = <<>> THEN <<item>>
    ELSE IF item[k] < sorted[Len(sorted)][k]
         THEN Append(InsertItem(SubSeq(sorted, 1, Len(sorted) - 1), item, k),
                     sorted[Len(sorted)])
         ELSE Append(sorted, item)

RECURSIVE SortItems(_, _)
SortItems(items, k) ==
    IF items = <<>> THEN <<>>
    ELSE InsertItem(SortItems(SubSeq(items, 1, Len(items) - 1), k),
                    items[Len(items)], k)

\* the frequency sort without the sort by character before it
create_alphabet_frequency_one_sort(text) ==
    SortItems(CountChars(text, <<>>), 2)

create_alphabet_frequency(text) ==
    SortItems(SortItems(CountChars(text, <<>>), 1), 2)

\* ------------------------------------------------------------- the tree
\* sorted(nodes, key=lambda node: node.frequency): stable, ascending
RECURSIVE InsertNode(_, _, _)
InsertNode(sorted, n, h) ==
    IF sorted = <<>> THEN <<n>>
    ELSE IF h[n].frequency < h[sorted[Len(sorted)]].frequency
         THEN Append(InsertNode(SubSeq(sorted, 1, Len(sorted) - 1), n, h),
                     sorted[Len(sorted)])
         ELSE Append(sorted, n)

RECURSIVE SortNodes(_, _)
SortNodes(ns, h) ==
    IF ns = <<>> THEN <<>>
    ELSE InsertNode(SortNodes(SubSeq(ns, 1, Len(ns) - 1), h), ns[Len(ns)], h)

\* the scan with <= for <: a later node of equal frequency wins
RECURSIVE ScanSmallestTiesLast(_, _, _, _)
ScanSmallestTiesLast(rest, min_node1, min_node2, h) ==
    IF rest = <<>> THEN <<min_node1, min_node2>>
    ELSE LET node == Head(rest) IN
         IF h[node].frequency <= h[min_node1].frequency
         THEN ScanSmallestTiesLast(Tail(rest), node, min_node1, h)
         ELSE IF h[node].frequency <= h[min_node2].frequency
              THEN ScanSmallestTiesLast(Tail(rest), min_node1, node, h)
              ELSE ScanSmallestTiesLast(Tail(rest), min_node1, min_node2, h)

\* the loop of __get_two_smallest_nodes over nodes[2:]
RECURSIVE ScanSmallest(_, _, _, _)
ScanSmallest(rest, min_node1, min_node2, h) ==
    IF rest = <<>> THEN <<min_node1, min_node2>>
    ELSE LET node == Head(rest) IN
         IF h[node].frequency < h[min_node1].frequency
         THEN ScanSmallest(Tail(rest), node, min_node1, h)
         ELSE IF h[node].frequency < h[min_node2].frequency
              THEN ScanSmallest(Tail(rest), min_node1, node, h)
              ELSE ScanSmallest(Tail(rest), min_node1, min_node2, h)

\* the scan with every comparison reversed: the two largest nodes
RECURSIVE ScanLargest(_, _, _, _)
ScanLargest(rest, max_node1, max_node2, h) ==
    IF rest = <<>> THEN <<max_node1, max_node2>>
    ELSE LET node == Head(rest) IN
         IF h[node].frequency > h[max_node1].frequency
         THEN ScanLargest(Tail(rest), node, max_node1, h)
         ELSE IF h[node].frequency > h[max_node2].frequency
              THEN ScanLargest(Tail(rest), max_node1, node, h)
              ELSE ScanLargest(Tail(rest), max_node1, max_node2, h)

get_two_largest_nodes(ns, h) ==
    IF h[ns[2]].frequency > h[ns[1]].frequency
    THEN ScanLargest(SubSeq(ns, 3, Len(ns)), ns[2], ns[1], h)
    ELSE ScanLargest(SubSeq(ns, 3, Len(ns)), ns[1], ns[2], h)

get_two_smallest_nodes(ns, h) ==
    IF h[ns[2]].frequency < h[ns[1]].frequency
    THEN ScanSmallest(SubSeq(ns, 3, Len(ns)), ns[2], ns[1], h)
    ELSE ScanSmallest(SubSeq(ns, 3, Len(ns)), ns[1], ns[2], h)

\* nodes.remove(x): drops the first occurrence
RECURSIVE Remove(_, _)
Remove(ns, x) ==
    IF ns = <<>> THEN <<>>
    ELSE IF Head(ns) = x THEN Tail(ns)
         ELSE <<Head(ns)>> \o Remove(Tail(ns), x)

\* the merge with the first node's frequency counted twice
merge_heap_first_twice(h, min_node1, min_node2) ==
    LET parent == Len(h) + 1
        linked == [i \in 1..Len(h) |->
                      IF i = min_node1
                      THEN [h[i] EXCEPT !.parent = parent, !.code = <<0>>]
                      ELSE IF i = min_node2
                           THEN [h[i] EXCEPT !.parent = parent, !.code = <<1>>]
                           ELSE h[i]]
    IN Append(linked,
              Node(None, h[min_node1].frequency + h[min_node1].frequency,
                   min_node1, min_node2, None))

\* the heap after __merge_nodes; the parent is the newest object
merge_heap(h, min_node1, min_node2) ==
    LET parent == Len(h) + 1
        linked == [i \in 1..Len(h) |->
                      IF i = min_node1
                      THEN [h[i] EXCEPT !.parent = parent, !.code = <<0>>]
                      ELSE IF i = min_node2
                           THEN [h[i] EXCEPT !.parent = parent, !.code = <<1>>]
                           ELSE h[i]]
    IN Append(linked,
              Node(None, h[min_node1].frequency + h[min_node2].frequency,
                   min_node1, min_node2, None))

\* the working list after __merge_nodes
merge_nodes(ns, h, min_node1, min_node2) ==
    Append(Remove(Remove(ns, min_node1), min_node2), Len(h) + 1)

\* ------------------------------------------------- the encoding table
Put(table, key, value) ==
    [c \in DOMAIN table \cup {key} |-> IF c = key THEN value ELSE table[c]]

\* the traversal with "0" appended on both sides
RECURSIVE build_encoding_table_same_bit(_, _, _, _)
build_encoding_table_same_bit(h, node, code, table) ==
    IF h[node].char # None
    THEN Put(table, h[node].char, code)
    ELSE LET afterLeft ==
                 IF h[node].left # None
                 THEN build_encoding_table_same_bit(h, h[node].left,
                                                    Append(code, 0), table)
                 ELSE table
         IN IF h[node].right # None
            THEN build_encoding_table_same_bit(h, h[node].right,
                                               Append(code, 0), afterLeft)
            ELSE afterLeft

RECURSIVE build_encoding_table(_, _, _, _)
build_encoding_table(h, node, code, table) ==
    IF h[node].char # None
    THEN Put(table, h[node].char, code)
    ELSE LET afterLeft ==
                 IF h[node].left # None
                 THEN build_encoding_table(h, h[node].left, Append(code, 0), table)
                 ELSE table
         IN IF h[node].right # None
            THEN build_encoding_table(h, h[node].right, Append(code, 1), afterLeft)
            ELSE afterLeft

\* ------------------------------------------------- the frequency file
\* repr(char)[1:-1]
Repr(char) ==
    IF char = 10 THEN <<92, 110>>
    ELSE IF char = 9 THEN <<92, 116>>
    ELSE IF char = 13 THEN <<92, 114>>
    ELSE IF char = 92 THEN <<92, 92>>
    ELSE <<char>>

\* the lines __write_alphabet_frequency writes
frequency_lines(items) ==
    <<Len(items)>> \o [i \in 1..Len(items) |-> <<Repr(items[i][1]), items[i][2]>>]

\* ------------------------------------------------------------ packing
RECURSIVE Concat(_, _)
Concat(text, table) ==
    IF text = <<>> THEN <<>>
    ELSE table[Head(text)] \o Concat(Tail(text), table)

Zeros(n) == [i \in 1..n |-> 0]

\* "{0:b}".format(n)
RECURSIVE Binary(_)
Binary(n) == IF n < 2 THEN <<n>> ELSE Append(Binary(n \div 2), n % 2)

\* "{0:08b}".format(n)
Format08b(n) ==
    LET digits == Binary(n)
    IN IF Len(digits) < 8 THEN Zeros(8 - Len(digits)) \o digits ELSE digits

\* the padding with no bits added to an aligned text
pad_encoded_text_to_alignment(encoded_text) ==
    LET extra_padding == (8 - (Len(encoded_text) % 8)) % 8
    IN Format08b(extra_padding) \o encoded_text \o Zeros(extra_padding)

pad_encoded_text(encoded_text) ==
    LET extra_padding == 8 - (Len(encoded_text) % 8)
    IN Format08b(extra_padding) \o encoded_text \o Zeros(extra_padding)

encode(text, table) == pad_encoded_text(Concat(text, table))

\* int(byte, 2)
RECURSIVE Int2(_)
Int2(byte) ==
    IF byte = <<>> THEN 0
    ELSE 2 * Int2(SubSeq(byte, 1, Len(byte) - 1)) + byte[Len(byte)]

\* the bytearray of __get_byte_array, for a text it accepts
get_byte_array(text) ==
    [i \in 1..(Len(text) \div 8) |-> Int2(SubSeq(text, 8 * i - 7, 8 * i))]

\* ------------------------------------------------------------- actions
Start(text) ==
    /\ content = text
    /\ pc = "count"
    /\ alphabet_frequency = <<>>
    /\ encoding_table = EmptyDict
    /\ heap = <<>>
    /\ nodes = <<>>
    /\ tree = None
    /\ freq_file = "absent"
    /\ binary_code = <<>>
    /\ bin_file = "absent"
    /\ outcome = "running"

Init == \E text \in SeqsUpTo(Alphabet, MaxLen) : Start(text)

\* compress: self.alphabet_frequency = self.__create_alphabet_frequency()
CreateAlphabetFrequency ==
    /\ pc = "count"
    /\ alphabet_frequency' = create_alphabet_frequency(content)
    /\ pc' = "leaves"
    /\ UNCHANGED <<content, encoding_table, heap, nodes, tree, freq_file,
                   binary_code, bin_file, outcome>>

\* __create_tree: one leaf per character, in dict order
CreateLeaves ==
    /\ pc = "leaves"
    /\ heap' = [i \in 1..Len(alphabet_frequency) |->
                   Node(alphabet_frequency[i][1], alphabet_frequency[i][2],
                        None, None, None)]
    /\ nodes' = [i \in 1..Len(alphabet_frequency) |-> i]
    /\ pc' = "merge"
    /\ UNCHANGED <<content, alphabet_frequency, encoding_table, tree, freq_file,
                   binary_code, bin_file, outcome>>

\* __create_tree: one iteration of the while loop
MergeStep ==
    /\ pc = "merge"
    /\ Len(nodes) > 1
    /\ LET sorted == SortNodes(nodes, heap)
           pair == get_two_smallest_nodes(sorted, heap)
       IN /\ heap' = merge_heap(heap, pair[1], pair[2])
          /\ nodes' = merge_nodes(sorted, heap, pair[1], pair[2])
    /\ UNCHANGED <<pc, content, alphabet_frequency, encoding_table, tree,
                   freq_file, binary_code, bin_file, outcome>>

\* __create_tree: return nodes[0]
ReturnRoot ==
    /\ pc = "merge"
    /\ Len(nodes) <= 1
    /\ IF nodes = <<>>
       THEN /\ outcome' = "IndexError"
            /\ pc' = "stopped"
            /\ tree' = tree
       ELSE /\ tree' = nodes[1]
            /\ pc' = "table"
            /\ outcome' = outcome
    /\ UNCHANGED <<content, alphabet_frequency, encoding_table, heap, nodes,
                   freq_file, binary_code, bin_file>>

\* compress: self.__build_encoding_table(tree, "")
BuildEncodingTable ==
    /\ pc = "table"
    /\ encoding_table' = build_encoding_table(heap, tree, <<>>, encoding_table)
    /\ pc' = "freq"
    /\ UNCHANGED <<content, alphabet_frequency, heap, nodes, tree, freq_file,
                   binary_code, bin_file, outcome>>

\* compress: self.__write_alphabet_frequency(freq_path, self.alphabet_frequency)
WriteAlphabetFrequency ==
    /\ pc = "freq"
    /\ freq_file' = frequency_lines(alphabet_frequency)
    /\ pc' = "encode"
    /\ UNCHANGED <<content, alphabet_frequency, encoding_table, heap, nodes,
                   tree, binary_code, bin_file, outcome>>

\* __write_compressed_file: binary_code = self.__encode(file_content)
Encode ==
    /\ pc = "encode"
    /\ binary_code' = encode(content, encoding_table)
    /\ pc' = "open"
    /\ UNCHANGED <<content, alphabet_frequency, encoding_table, heap, nodes,
                   tree, freq_file, bin_file, outcome>>

\* __write_compressed_file: open(output, "wb") creates or truncates the file
OpenOutput ==
    /\ pc = "open"
    /\ bin_file' = <<>>
    /\ pc' = "bytes"
    /\ UNCHANGED <<content, alphabet_frequency, encoding_table, heap, nodes,
                   tree, freq_file, binary_code, outcome>>

\* __write_compressed_file: f.write(self.__get_byte_array(binary_code));
\* __get_byte_array leaves through exit(0) on a misaligned text
WriteBytes ==
    /\ pc = "bytes"
    /\ IF Len(binary_code) % 8 # 0
       THEN /\ outcome' = "exit(0)"
            /\ pc' = "stopped"
            /\ bin_file' = bin_file
       ELSE /\ bin_file' = bin_file \o get_byte_array(binary_code)
            /\ pc' = "done"
            /\ outcome' = "completed"
    /\ UNCHANGED <<content, alphabet_frequency, encoding_table, heap, nodes,
                   tree, freq_file, binary_code>>

Next ==
    \/ CreateAlphabetFrequency
    \/ CreateLeaves
    \/ MergeStep
    \/ ReturnRoot
    \/ BuildEncodingTable
    \/ WriteAlphabetFrequency
    \/ Encode
    \/ OpenOutput
    \/ WriteBytes

Spec == Init /\ [][Next]_vars

\* __create_tree and __build_encoding_table on every frequency map: one
\* content per multiset of characters, the characters in ascending order
IsAscending(text) == \A i \in 1..(Len(text) - 1) : text[i] <= text[i + 1]

InitTree ==
    \E text \in {t \in SeqsUpTo(Alphabet, MaxLen) : IsAscending(t)} : Start(text)

NextTree ==
    \/ CreateAlphabetFrequency
    \/ CreateLeaves
    \/ MergeStep
    \/ ReturnRoot
    \/ BuildEncodingTable

SpecTree == InitTree /\ [][NextTree]_vars

\* __get_byte_array under the with block of __write_compressed_file, on
\* every bit string
InitBytes ==
    \E text \in SeqsUpTo(Bit, MaxBits) :
        /\ binary_code = text
        /\ pc = "open"
        /\ content = <<>>
        /\ alphabet_frequency = <<>>
        /\ encoding_table = EmptyDict
        /\ heap = <<>>
        /\ nodes = <<>>
        /\ tree = None
        /\ freq_file = "absent"
        /\ bin_file = "absent"
        /\ outcome = "running"

NextBytes ==
    \/ OpenOutput
    \/ WriteBytes

SpecBytes == InitBytes /\ [][NextBytes]_vars

\* ------------------------------------------------------ claim vocabulary
Symbols == {content[i] : i \in 1..Len(content)}

Count(c) == Cardinality({i \in 1..Len(content) : content[i] = c})

IsPrefix(u, v) == Len(u) <= Len(v) /\ SubSeq(v, 1, Len(u)) = u

TableBuilt == pc \in {"freq", "encode", "open", "bytes", "done"}

Encoded == pc \in {"open", "bytes", "done"}

\* the number of code bits of the first k characters of the content
RECURSIVE CodeBits(_)
CodeBits(k) ==
    IF k = 0 THEN 0 ELSE CodeBits(k - 1) + Len(encoding_table[content[k]])

\* the value of a bit string read most significant bit first
RECURSIVE BigEndian(_)
BigEndian(bits) ==
    IF bits = <<>> THEN 0
    ELSE bits[1] * 2 ^ (Len(bits) - 1) + BigEndian(Tail(bits))

\* C1: the packed bit string is an 8-bit big-endian header holding extra,
\* then every character's code in input order, then exactly extra zero bits,
\* where extra = 8 - (L mod 8) lies in 1..8 (8 when L is a multiple of 8)
\* and the total length 8 + L + extra is a multiple of 8.
C1_PackedLayout ==
    Encoded =>
        LET L == CodeBits(Len(content))
            extra == 8 - (L % 8)
        IN /\ extra \in 1..8
           /\ (L % 8 = 0 => extra = 8)
           /\ Len(binary_code) = 8 + L + extra
           /\ Len(binary_code) % 8 = 0
           /\ BigEndian(SubSeq(binary_code, 1, 8)) = extra
           /\ \A k \in 1..Len(content) :
                  SubSeq(binary_code, 8 + CodeBits(k - 1) + 1, 8 + CodeBits(k))
                      = encoding_table[content[k]]
           /\ \A i \in (8 + L + 1)..(8 + L + extra) : binary_code[i] = 0

C1_Witness ==
    /\ pc = "done"
    /\ CodeBits(Len(content)) = 8
    /\ Len(binary_code) = 24

\* C2: for a non-empty input no code of the encoding table is a prefix of
\* the code of another symbol.
C2_PrefixFree ==
    (TableBuilt /\ content # <<>>) =>
        \A s \in DOMAIN encoding_table : \A t \in DOMAIN encoding_table :
            s # t => ~IsPrefix(encoding_table[s], encoding_table[t])

C2_Witness ==
    /\ pc = "done"
    /\ Cardinality(DOMAIN encoding_table) = 3
    /\ \E s \in DOMAIN encoding_table : Len(encoding_table[s]) = 2

\* C3: every symbol of the encoding table has a non-empty code, and the
\* only symbol of a one-symbol input has the code "0".
C3_CodesNonEmpty ==
    TableBuilt =>
        /\ \A s \in DOMAIN encoding_table : encoding_table[s] # <<>>
        /\ Cardinality(Symbols) = 1 =>
               \A s \in Symbols : encoding_table[s] = <<0>>

\* C4: an empty input ends tree building in the explicit EmptyAlphabet
\* error, and no compressed payload is produced.
C4_EmptyAlphabetError ==
    (content = <<>> /\ pc \notin {"count", "leaves", "merge"}) =>
        /\ outcome = "EmptyAlphabet"
        /\ bin_file = "absent"

\* the bits of a byte sequence, eight per byte, most significant first
RECURSIVE BitsOf(_)
BitsOf(bytes) ==
    IF bytes = <<>> THEN <<>>
    ELSE [i \in 1..8 |-> (Head(bytes) \div 2 ^ (8 - i)) % 2] \o BitsOf(Tail(bytes))

\* the bits left after the header and the trailing bits it counts are dropped
Body(bits) ==
    SubSeq(bits, 9, Len(bits) - BigEndian(SubSeq(bits, 1, 8)))

\* left-to-right decoding with a table; <<None>> marks bits no code matches
RECURSIVE Decode(_, _)
Decode(bits, table) ==
    IF bits = <<>> THEN <<>>
    ELSE LET hits == {s \in DOMAIN table :
                         table[s] # <<>> /\ IsPrefix(table[s], bits)}
         IN IF hits = {} THEN <<None>>
            ELSE LET s == CHOOSE x \in hits : TRUE
                 IN <<s>> \o Decode(SubSeq(bits, Len(table[s]) + 1, Len(bits)),
                                    table)

\* C5: for a non-empty input, decoding the payload without its header and
\* without the trailing bits the header counts gives back the input.
C5_RoundTrip ==
    (pc = "done" /\ content # <<>>) =>
        Decode(Body(BitsOf(bin_file)), encoding_table) = content

\* the place of a symbol in ascending (frequency, symbol) order
Rank(c) ==
    1 + Cardinality({d \in Symbols :
                        \/ Count(d) < Count(c)
                        \/ Count(d) = Count(c) /\ d < c})

\* C7: the frequency file holds the number N of distinct symbols, then
\* exactly N lines, one per distinct symbol with its exact count, ascending
\* by frequency and, among equal frequencies, ascending by symbol.
C7_FrequencyFile ==
    pc \in {"encode", "open", "bytes", "done"} =>
        /\ freq_file[1] = Cardinality(Symbols)
        /\ Len(freq_file) = 1 + Cardinality(Symbols)
        /\ \A c \in Symbols : freq_file[1 + Rank(c)] = <<Repr(c), Count(c)>>

C7_Witness ==
    /\ pc = "done"
    /\ Cardinality(Symbols) = 3
    /\ \E c \in Symbols : \E d \in Symbols :
           /\ c < d
           /\ Count(c) = Count(d)
           /\ \E i \in 1..Len(content) : \E j \in 1..Len(content) :
                  i < j /\ content[i] = d /\ content[j] = c

\* the non-empty bit strings a codeword may be
Codewords == SeqsUpTo(Bit, MaxCodeLen) \ {<<>>}

Clashes(u, v) == IsPrefix(u, v) \/ IsPrefix(v, u)

\* the weighted length of a code: the sum over the symbols s of S of
\* frequency(s) * len(code(s))
RECURSIVE WeightedLength(_, _)
WeightedLength(code, S) ==
    IF S = {} THEN 0
    ELSE LET s == CHOOSE x \in S : TRUE
         IN Count(s) * Len(code[s]) + WeightedLength(code, S \ {s})

\* every way of giving the symbols of S codewords that clash neither with
\* each other nor with the codewords in used has, added to length, a
\* weighted length of at least least
RECURSIVE EveryCodeReaches(_, _, _, _)
EveryCodeReaches(S, used, length, least) ==
    IF S = {} THEN least <= length
    ELSE LET s == CHOOSE x \in S : TRUE
         IN \A w \in Codewords :
                (\A u \in used : ~Clashes(w, u)) =>
                    EveryCodeReaches(S \ {s}, used \cup {w},
                                     length + Count(s) * Len(w), least)

\* C6: with at least two distinct symbols, the weighted length of the
\* encoding table is at most that of every prefix-free code with non-empty
\* codewords over the same symbols.
C6_Optimal ==
    (TableBuilt /\ Cardinality(Symbols) >= 2) =>
        EveryCodeReaches(Symbols, {}, 0,
                         WeightedLength(encoding_table, Symbols))

C6_Witness ==
    /\ TableBuilt
    /\ Cardinality(Symbols) = 3
    /\ \E s \in Symbols : \E t \in Symbols :
           Len(encoding_table[s]) < Len(encoding_table[t])

\* C8: a bit string whose length is not a multiple of 8 makes byte grouping
\* fail with the MisalignedBitstream error, and the payload output is left
\* as it was: not created, not truncated, nothing written.
C8_MisalignedGuard ==
    (Len(binary_code) % 8 # 0 /\ pc \in {"stopped", "done"}) =>
        /\ outcome = "MisalignedBitstream"
        /\ bin_file = "absent"

Place(x) == CHOOSE i \in 1..Len(nodes) : nodes[i] = x

\* C9: a merge step takes the two nodes of least frequency of the working
\* list, ties going to the node that comes first in the list; the first
\* becomes the left child (edge 0), the second the right child (edge 1),
\* and a merged node is taken after every leaf and every older node of its
\* frequency.
C9_MergeTakesTwoSmallest ==
    [][(pc = "merge" /\ Len(heap') > Len(heap)) =>
        LET parent == heap'[Len(heap')]
            l == parent.left
            r == parent.right
            listed == {nodes[i] : i \in 1..Len(nodes)}
        IN /\ l \in listed /\ r \in listed /\ l # r
           /\ heap[l].frequency <= heap[r].frequency
           /\ heap'[l].code = <<0>> /\ heap'[r].code = <<1>>
           /\ \A x \in listed \ {l, r} : heap[r].frequency <= heap[x].frequency
           /\ \A x \in listed \ {l} :
                  heap[x].frequency = heap[l].frequency => Place(l) < Place(x)
           /\ \A x \in listed \ {l, r} :
                  heap[x].frequency = heap[r].frequency => Place(r) < Place(x)
           /\ \A x \in listed \ {l} :
                  (heap[x].frequency = heap[l].frequency /\ heap[l].char = None)
                      => heap[x].char = None /\ l < x
           /\ \A x \in listed \ {l, r} :
                  (heap[x].frequency = heap[r].frequency /\ heap[r].char = None)
                      => heap[x].char = None /\ r < x
    ]_vars

C9_Witness ==
    /\ pc = "table"
    /\ \E p \in 1..Len(heap) :
           /\ heap[p].char = None
           /\ heap[heap[p].left].char # None
           /\ heap[heap[p].right].char = None
           /\ heap[heap[p].left].frequency = heap[heap[p].right].frequency

RECURSIVE Leaves(_)
Leaves(n) ==
    IF heap[n].char # None THEN <<n>>
    ELSE (IF heap[n].left # None THEN Leaves(heap[n].left) ELSE <<>>)
         \o (IF heap[n].right # None THEN Leaves(heap[n].right) ELSE <<>>)

RECURSIVE LeavesOfAll(_)
LeavesOfAll(ns) ==
    IF ns = <<>> THEN <<>> ELSE Leaves(Head(ns)) \o LeavesOfAll(Tail(ns))

RECURSIVE FrequencySum(_)
FrequencySum(ns) ==
    IF ns = <<>> THEN 0 ELSE heap[Head(ns)].frequency + FrequencySum(Tail(ns))

Merges == Cardinality({i \in 1..Len(heap) : heap[i].char = None})

\* C10: for a non-empty input with n distinct symbols, after any number of
\* merges the frequencies of the working list sum to the input length and
\* the leaves below it are the n symbols, each once; the list has n minus
\* the number of merges nodes; at the end, after n - 1 merges, the single
\* root has the input length as frequency and n leaves; every internal node
\* has two children and the sum of their frequencies.
C10_Conservation ==
    (content # <<>> /\ pc \notin {"count", "leaves"}) =>
        LET n == Cardinality(Symbols)
            below == LeavesOfAll(nodes)
        IN /\ FrequencySum(nodes) = Len(content)
           /\ Len(below) = n
           /\ {heap[below[i]].char : i \in 1..Len(below)} = Symbols
           /\ \A i \in 1..Len(below) :
                  heap[below[i]].frequency = Count(heap[below[i]].char)
           /\ Len(nodes) = n - Merges
           /\ \A i \in 1..Len(heap) :
                  heap[i].char = None =>
                      /\ heap[i].left # None /\ heap[i].right # None
                      /\ heap[i].left # heap[i].right
                      /\ heap[i].frequency = heap[heap[i].left].frequency
                                             + heap[heap[i].right].frequency
           /\ pc # "merge" =>
                  /\ Merges = n - 1
                  /\ nodes = <<tree>>
                  /\ heap[tree].frequency = Len(content)
                  /\ Len(Leaves(tree)) = n

C10_Witness ==
    /\ pc = "merge"
    /\ Merges = 1
    /\ Len(nodes) = 2

====
